---- MODULE Spec2Model ----
(***************************************************************************)
(* Model of src/makeHouse.js: makeHouse() and its inner helper             *)
(* buildWallWithWindow().                                                  *)
(*                                                                         *)
(* Lengths are exact integers in units of 0.0005 (half a millimetre), so   *)
(* 0.001 is 2, 0.02 is 40, 0.05 is 100, 0.2 is 400, 1.0 is 2000.  Inputs   *)
(* are drawn from sets whose members keep every x/2 of the code exact      *)
(* (HalvesExact below is checked), so Half(x) is the code's x / 2.         *)
(***************************************************************************)
EXTENDS Integers, Sequences, FiniteSets

\* ---- bounds of the model ------------------------------------------------
MaxSmall == 2        \* small room dimensions 0.1 * k, k in 1..MaxSmall
MaxWin == 2          \* small window sizes   0.1 * k, k in 1..MaxWin
MaxOff == 1          \* window offsets 0.75 * k, k in -MaxOff..MaxOff

\* ---- numeric literals of the program ------------------------------------
MARGIN == 400        \* 0.2   (L - 0.2, H - 0.2)
SMALLGAP == 100      \* 0.05  (H - winH - 0.05)
EPS == 2             \* 0.001 (omission threshold)
glassT == 40         \* 0.02
ceilT == 160         \* 0.08
ceilLift == 80       \* 0.04
defWallT == 300      \* 0.15
defFloorT == 240     \* 0.12

Min(a, b) == IF a < b THEN a ELSE b
Max(a, b) == IF a > b THEN a ELSE b
Half(x) == x \div 2
Abs(x) == IF x < 0 THEN -x ELSE x

\* ---- inputs ---------------------------------------------------------------
\* The south wall (L = width) is built over the whole grid of window specs,
\* the east wall (L = depth) over the default and the oversized scenarios.
Widths == {200 * k : k \in 1..MaxSmall} \cup {8000}
Heights == {200 * k : k \in 1..MaxSmall} \cup {6000}
WinWs == {200 * k : k \in 1..MaxWin} \cup {6000}
WinHs == {200 * k : k \in 1..MaxWin} \cup {2800}
Sills == {-200, 0, EPS, 1400}
Offsets == {1500 * k : k \in -MaxOff..MaxOff} \cup {EPS - Half(MARGIN)}
SouthSpecs == [w : WinWs, h : WinHs, sill : Sills, center : Offsets]
\* Depth, wall and floor thickness: the defaults, and a shallow thin shell.
Shells == { [depth |-> 12000, wallT |-> defWallT, floorT |-> defFloorT],
            [depth |-> 600, wallT |-> 200, floorT |-> 100] }
EastSpecs ==
  { [w |-> 4800, h |-> 2400, sill |-> 1800, center |-> 0],
    [w |-> 20000, h |-> 2400, sill |-> 1800, center |-> 0],
    [w |-> 4800, h |-> 4000, sill |-> 4000, center |-> 3000] }

VARIABLES
  width, depth, height, wallT, floorT, winEast, winSouth,   \* makeHouse parameters
  g,                                                        \* the returned group's children
  axis, L, H, T, center, offsetAlong, outwardNormal,        \* buildWallWithWindow parameters
  winW, winH, sill,                                         \* reassigned parameters
  wallGroup,                                                \* the wall's group
  pc

params == <<width, depth, height, wallT, floorT, winEast, winSouth>>
args == <<axis, L, H, T, center, offsetAlong, outwardNormal>>
vars == <<params, g, args, winW, winH, sill, wallGroup, pc>>

\* ---- helpers ------------------------------------------------------------
makeBox(name, sx, sy, sz) ==
  [name |-> name, sx |-> sx, sy |-> sy, sz |-> sz,
   px |-> 0, py |-> 0, pz |-> 0, castShadow |-> TRUE, receiveShadow |-> TRUE]

positionSet(m, x, y, z) == [m EXCEPT !.px = x, !.py = y, !.pz = z]

\* ---- buildWallWithWindow: clamp -----------------------------------------
\* (variant: the margin taken off after the min instead of inside it)
ClampWMarginOutside(w, len) == Min(w, len) - MARGIN
ClampW(w, len) == Min(w, len - MARGIN)
\* (variant: no margin kept above the window height)
ClampHNoMargin(h, hgt) == Min(h, hgt)
ClampH(h, hgt) == Min(h, hgt - MARGIN)
\* (variant: no gap kept below the wall top)
ClampSillNoGap(s, hgt, h) == Max(0, Min(s, hgt - h))
ClampSill(s, hgt, h) == Max(0, Min(s, hgt - h - SMALLGAP))

\* ---- buildWallWithWindow: derived locals --------------------------------
yBottom == -Half(H)
yTop == Half(H)
yWinBottom == yBottom + sill
yWinTop == yWinBottom + winH
halfL == Half(L)
winCenter == offsetAlong
winLeft == winCenter - Half(winW)
winRight == winCenter + Half(winW)
lowerH == yWinBottom - yBottom
upperH == yTop - yWinTop
\* (variants: a wrong sign on one operand)
LeftWSign(wl, hl) == wl - hl
RightWSign(wr, hl) == hl + wr
LeftW(wl, hl) == wl + hl
RightW(wr, hl) == hl - wr
leftW == LeftW(winLeft, halfL)
rightW == RightW(winRight, halfL)

Init ==
  /\ width \in Widths /\ height \in Heights
  /\ \E sh \in Shells : depth = sh.depth /\ wallT = sh.wallT /\ floorT = sh.floorT
  /\ winEast \in EastSpecs /\ winSouth \in SouthSpecs
  /\ g = <<>>
  /\ axis = "none" /\ L = 0 /\ H = 0 /\ T = 0
  /\ center = [x |-> 0, y |-> 0, z |-> 0]
  /\ offsetAlong = 0
  /\ outwardNormal = [x |-> 0, y |-> 0, z |-> 0]
  /\ winW = 0 /\ winH = 0 /\ sill = 0
  /\ wallGroup = [position |-> [x |-> 0, y |-> 0, z |-> 0], children |-> <<>>]
  /\ pc = "floor"

locals == <<args, winW, winH, sill, wallGroup>>

\* ---- makeHouse: floor / ceiling / plain walls ---------------------------
\* (variant: the floor hung below y = 0)
FloorPosYBelow(ft) == -Half(ft)
FloorPosY(ft) == Half(ft)
floorBox ==
  positionSet(makeBox("floor", width - wallT * 2, floorT, depth - wallT * 2),
              0, FloorPosY(floorT), 0)

Floor ==
  /\ pc = "floor"
  /\ g' = Append(g, floorBox)
  /\ pc' = "ceiling"
  /\ UNCHANGED <<params, locals>>

Ceiling ==
  /\ pc = "ceiling"
  /\ g' = Append(g, positionSet(makeBox("ceiling", width, ceilT, depth),
                                0, height + ceilLift, 0))
  /\ pc' = "west"
  /\ UNCHANGED <<params, locals>>

wallY == Half(height)

WestWall ==
  /\ pc = "west"
  /\ g' = Append(g, positionSet(makeBox("west", wallT, height, depth),
                                -Half(width) + Half(wallT), wallY, 0))
  /\ pc' = "north"
  /\ UNCHANGED <<params, locals>>

NorthWall ==
  /\ pc = "north"
  /\ g' = Append(g, positionSet(makeBox("north", width, height, wallT),
                                0, wallY, -Half(depth) + Half(wallT)))
  /\ pc' = "east"
  /\ UNCHANGED <<params, locals>>

\* ---- buildWallWithWindow ------------------------------------------------
\* Entry: bind the parameters, create the group at the wall's centre.
Call(ax, len, hgt, thk, c, w, h, s, off, n) ==
  /\ axis' = ax /\ L' = len /\ H' = hgt /\ T' = thk /\ center' = c
  /\ winW' = w /\ winH' = h /\ sill' = s
  /\ offsetAlong' = off /\ outwardNormal' = n
  /\ wallGroup' = [position |-> c, children |-> <<>>]
  /\ pc' = "clamp"
  /\ UNCHANGED <<params, g>>

CallEast ==
  /\ pc = "east"
  /\ Call("z", depth, height, wallT,
          [x |-> Half(width) - Half(wallT), y |-> wallY, z |-> 0],
          winEast.w, winEast.h, winEast.sill, winEast.center,
          [x |-> 1, y |-> 0, z |-> 0])

CallSouth ==
  /\ pc = "south"
  /\ Call("x", width, height, wallT,
          [x |-> 0, y |-> wallY, z |-> Half(depth) - Half(wallT)],
          winSouth.w, winSouth.h, winSouth.sill, winSouth.center,
          [x |-> 0, y |-> 0, z |-> 1])

Clamp ==
  /\ pc = "clamp"
  /\ winW' = ClampW(winW, L)
  /\ winH' = ClampH(winH, H)
  /\ sill' = ClampSill(sill, H, winH')
  /\ pc' = "lower"
  /\ UNCHANGED <<params, g, args, wallGroup>>

add(grp, box) == [grp EXCEPT !.children = Append(@, box)]

Emits(extent) == extent > EPS

lowerBox ==
  positionSet(makeBox("Lower", IF axis = "x" THEN L ELSE T, lowerH,
                               IF axis = "x" THEN T ELSE L),
              0, yBottom + Half(lowerH), 0)

upperBox ==
  positionSet(makeBox("Upper", IF axis = "x" THEN L ELSE T, upperH,
                               IF axis = "x" THEN T ELSE L),
              0, yWinTop + Half(upperH), 0)

leftBox ==
  LET box == makeBox("Left", IF axis = "x" THEN leftW ELSE T, winH,
                             IF axis = "x" THEN T ELSE leftW)
  IN IF axis = "x"
       THEN positionSet(box, -halfL + Half(leftW), yWinBottom + Half(winH), 0)
       ELSE positionSet(box, 0, yWinBottom + Half(winH), -halfL + Half(leftW))

rightBox ==
  LET box == makeBox("Right", IF axis = "x" THEN rightW ELSE T, winH,
                              IF axis = "x" THEN T ELSE rightW)
  IN IF axis = "x"
       THEN positionSet(box, halfL - Half(rightW), yWinBottom + Half(winH), 0)
       ELSE positionSet(box, 0, yWinBottom + Half(winH), halfL - Half(rightW))

\* (variant: the pane left at the wall's centre)
GlassAlongCentre(wc) == 0
GlassAlong(wc) == wc
glassBox ==
  LET box == makeBox("Pane", IF axis = "x" THEN winW ELSE glassT, winH,
                             IF axis = "x" THEN glassT ELSE winW)
      placed ==
        IF axis = "x"
          THEN positionSet(box, GlassAlong(winCenter), yWinBottom + Half(winH),
                           outwardNormal.z * (Half(T) - Half(glassT)))
          ELSE positionSet(box, outwardNormal.x * (Half(T) - Half(glassT)),
                           yWinBottom + Half(winH), GlassAlong(winCenter))
  IN [placed EXCEPT !.castShadow = FALSE]

Step(here, extent, box, there) ==
  /\ pc = here
  /\ wallGroup' = IF Emits(extent) THEN add(wallGroup, box) ELSE wallGroup
  /\ pc' = there
  /\ UNCHANGED <<params, g, args, winW, winH, sill>>

Lower == Step("lower", lowerH, lowerBox, "upper")
Upper == Step("upper", upperH, upperBox, "left")
Left == Step("left", leftW, leftBox, "right")
Right == Step("right", rightW, rightBox, "glass")

Glass ==
  /\ pc = "glass"
  /\ wallGroup' = add(wallGroup, glassBox)
  /\ pc' = "attach"
  /\ UNCHANGED <<params, g, args, winW, winH, sill>>

\* wallGroup.position.copy(center); g.add(wallGroup); return to makeHouse.
Attach ==
  /\ pc = "attach"
  /\ wallGroup' = [wallGroup EXCEPT !.position = center]
  /\ g' = Append(g, wallGroup')
  /\ pc' = IF axis = "z" THEN "south" ELSE "done"
  /\ UNCHANGED <<params, args, winW, winH, sill>>

Next ==
  \/ Floor \/ Ceiling \/ WestWall \/ NorthWall
  \/ CallEast \/ CallSouth \/ Clamp
  \/ Lower \/ Upper \/ Left \/ Right \/ Glass \/ Attach

Spec == Init /\ [][Next]_vars

\* Every x / 2 the program computes is exact in the model's unit.
Even(x) == x % 2 = 0
HalvesExact ==
  /\ Even(width) /\ Even(depth) /\ Even(height) /\ Even(wallT) /\ Even(floorT)
  /\ pc \in {"lower", "upper", "left", "right", "glass", "attach"} =>
       /\ Even(H) /\ Even(L) /\ Even(T) /\ Even(winW) /\ Even(winH)
       /\ Even(lowerH) /\ Even(upperH) /\ Even(leftW) /\ Even(rightW)

\* ---- vocabulary of the properties ---------------------------------------
\* The clamp of the current call has run.
Clamped == pc \in {"lower", "upper", "left", "right", "glass", "attach", "south", "done"}
\* The current call has added every child of its wall group.
Built == pc \in {"attach", "south", "done"}
\* The window as requested by the caller of the current call.
req == IF axis = "z" THEN winEast ELSE winSouth

kids == wallGroup.children
Structural == {i \in DOMAIN kids : kids[i].name # "Pane"}
Panes == {i \in DOMAIN kids : kids[i].name = "Pane"}
Emitted(name) == \E i \in DOMAIN kids : kids[i].name = name
BoxOf(name) == kids[CHOOSE i \in DOMAIN kids : kids[i].name = name]

\* Projection of a box onto the wall's length x height face.
AlongSize(b) == IF axis = "x" THEN b.sx ELSE b.sz
AlongPos(b) == IF axis = "x" THEN b.px ELSE b.pz
AlongLo(b) == AlongPos(b) - Half(Abs(AlongSize(b)))
AlongHi(b) == AlongPos(b) + Half(Abs(AlongSize(b)))
VertLo(b) == b.py - Half(Abs(b.sy))
VertHi(b) == b.py + Half(Abs(b.sy))
FaceArea(b) == AlongSize(b) * b.sy
Overlap(a, b) ==
  /\ Max(AlongLo(a), AlongLo(b)) < Min(AlongHi(a), AlongHi(b))
  /\ Max(VertLo(a), VertLo(b)) < Min(VertHi(a), VertHi(b))

RECURSIVE SumArea(_)
SumArea(S) ==
  IF S = {} THEN 0
  ELSE LET i == CHOOSE j \in S : TRUE IN FaceArea(kids[i]) + SumArea(S \ {i})

PositiveInput == L > 0 /\ H > 0 /\ T > 0 /\ req.w > 0 /\ req.h > 0

\* ---- C1 -----------------------------------------------------------------
\* C1: tiling completeness.  For every wall with positive L, H, T and every
\* window of positive width and height (any sill, any signed offset), the
\* face areas of the emitted Lower, Upper, Left and Right segments plus the
\* clamped aperture winW x winH add up to L x H, up to what segments omitted
\* at the threshold (extent <= 0.001) can account for.
C1_Tiling ==
  (Built /\ PositiveInput) =>
    Abs(SumArea(Structural) + winW * winH - L * H) <= EPS * 2 * (L + H)

\* ---- C2 -----------------------------------------------------------------
\* C2: no overlap.  No two emitted structural segments of a wall, projected
\* onto the length x height face, intersect with nonzero area.
C2_NoOverlap ==
  (Built /\ PositiveInput) =>
    \A i, j \in Structural : i < j => ~Overlap(kids[i], kids[j])

\* ---- C3 -----------------------------------------------------------------
\* C3: clamp postcondition.  After the clamp, 0 <= sill, the window top stays
\* at least 0.05 below the wall top (sill + winH <= H - 0.05, hence <= H),
\* and winW <= L.
C3_ClampPost ==
  Clamped =>
    /\ 0 <= sill
    /\ sill + winH <= H - SMALLGAP
    /\ sill + winH <= H
    /\ winW <= L

\* A call whose requested width and sill + height both overflow the wall has
\* been clamped, the sill landing exactly on its upper limit.
C3_Witness ==
  /\ Clamped /\ axis = "x"
  /\ req.w > L /\ req.sill + req.h > H
  /\ winW < req.w /\ sill < req.sill
  /\ sill + winH = H - SMALLGAP

\* ---- C4 -----------------------------------------------------------------
\* C4: degeneracy avoidance.  For positive room dimensions and positive
\* window width and height, every emitted structural segment has a strictly
\* positive size in each of its three box dimensions.
C4_NoDegenerate ==
  (Built /\ PositiveInput) =>
    \A i \in Structural : kids[i].sx > 0 /\ kids[i].sy > 0 /\ kids[i].sz > 0

C6_Original ==
  (Built /\ winW = L - MARGIN) =>
    /\ Emitted("Left") => AlongSize(BoxOf("Left")) <= EPS
    /\ Emitted("Right") => AlongSize(BoxOf("Right")) <= EPS

\* C6 (amended): a window whose width is exactly L - 0.2 leaves Left and
\* Right extents that sum to 0.2, so at least one of Left, Right is emitted;
\* for a centred window both are emitted, each of along-axis extent 0.1.
C6_Amended ==
  (Built /\ winW = L - MARGIN) =>
    /\ leftW + rightW = MARGIN
    /\ Emitted("Left") \/ Emitted("Right")
    /\ offsetAlong = 0 =>
         /\ Emitted("Left") /\ AlongSize(BoxOf("Left")) = Half(MARGIN)
         /\ Emitted("Right") /\ AlongSize(BoxOf("Right")) = Half(MARGIN)
    /\ Emitted("Left") => AlongSize(BoxOf("Left")) = leftW
    /\ Emitted("Right") => AlongSize(BoxOf("Right")) = rightW

\* An oversized centred window, clamped to L - 0.2, with both side segments.
C6_Witness ==
  /\ Built /\ req.w > L /\ winW = L - MARGIN /\ offsetAlong = 0
  /\ Emitted("Left") /\ Emitted("Right")

\* ---- C7 -----------------------------------------------------------------
\* C7 (as stated): for a centred window (offset 0) of width < L - 0.2, any
\* positive height and any sill >= 0, all four of Lower, Upper, Left, Right
\* are emitted, Left and Right each of along-axis extent (L - winW) / 2.
AllFour ==
  /\ Emitted("Lower") /\ Emitted("Upper") /\ Emitted("Left") /\ Emitted("Right")
  /\ AlongSize(BoxOf("Left")) = Half(L - winW)
  /\ AlongSize(BoxOf("Right")) = Half(L - winW)

C7_Original ==
  (Built /\ offsetAlong = 0 /\ req.w > 0 /\ req.w < L - MARGIN
         /\ req.h > 0 /\ req.sill >= 0) => AllFour

\* C7 (amended): the same, for a sill above the omission threshold
\* (sill > 0.001) instead of any sill >= 0.
C7_Amended ==
  (Built /\ offsetAlong = 0 /\ req.w > 0 /\ req.w < L - MARGIN
         /\ req.h > 0 /\ req.sill > EPS) => AllFour

\* A centred narrow window with a raised sill, and its four segments.
C7_Witness ==
  /\ Built /\ offsetAlong = 0 /\ req.w > 0 /\ req.w < L - MARGIN
  /\ req.h > 0 /\ req.sill > EPS
  /\ Cardinality(Structural) = 4

\* ---- C8 -----------------------------------------------------------------
\* C8 (as stated): when the requested window already satisfies 0 <= sill,
\* sill + height <= H and width <= L, the clamp returns width, height and
\* sill unchanged.
ClampNoOp == winW = req.w /\ winH = req.h /\ sill = req.sill

C8_Original ==
  (Clamped /\ 0 <= req.sill /\ req.sill + req.h <= H /\ req.w <= L) => ClampNoOp

\* C8 (amended): when the requested window already satisfies the clamp's own
\* limits, width <= L - 0.2, height <= H - 0.2 and
\* 0 <= sill <= H - height - 0.05, the clamp returns all three unchanged.
C8_Amended ==
  (Clamped /\ req.w <= L - MARGIN /\ req.h <= H - MARGIN
           /\ 0 <= req.sill /\ req.sill <= H - req.h - SMALLGAP) => ClampNoOp

\* A call with a window inside the clamp's limits, after the clamp.
C8_Witness ==
  /\ pc = "lower" /\ req.w <= L - MARGIN /\ req.h <= H - MARGIN
  /\ 0 < req.sill /\ req.sill <= H - req.h - SMALLGAP
  /\ ClampNoOp

\* ---- C9 -----------------------------------------------------------------
\* The floor is the first child the house gets.
FloorPlaced == pc # "floor"
floor == g[1]
FloorSizedAndCentred ==
  /\ floor.name = "floor"
  /\ floor.sx = width - 2 * wallT /\ floor.sy = floorT /\ floor.sz = depth - 2 * wallT
  /\ floor.px = 0 /\ floor.pz = 0
  /\ floor.px + Half(floor.sx) = Half(width) - wallT
  /\ floor.px - Half(floor.sx) = -Half(width) + wallT
  /\ floor.pz + Half(floor.sz) = Half(depth) - wallT
  /\ floor.pz - Half(floor.sz) = -Half(depth) + wallT

\* C9 (as stated): the floor is a box of size (width - 2 wallT, floorT,
\* depth - 2 wallT), centred on the room in x and z, inset by one wall
\* thickness on each side, with its top face at y = 0.
C9_Original ==
  FloorPlaced => (FloorSizedAndCentred /\ floor.py + Half(floor.sy) = 0)

\* C9 (amended): the same size and x/z placement, with the floor's bottom
\* face at y = 0 and its top face at y = floorT.
C9_Amended ==
  FloorPlaced =>
    /\ FloorSizedAndCentred
    /\ floor.py - Half(floor.sy) = 0
    /\ floor.py + Half(floor.sy) = floorT

\* A finished house with a non-default floor thickness.
C9_Witness ==
  /\ pc = "done" /\ floorT # defFloorT
  /\ floor.name = "floor" /\ floor.py = Half(floorT)

\* ---- C10 ----------------------------------------------------------------
\* C10: minimum emitted structure.  For L, H > 0, any sill and any offset,
\* Upper is always emitted with height >= 0.05, the Left and Right extents
\* sum to L - winW >= 0.2 so at least one of them is emitted, and the wall
\* group holds between 2 and 4 structural segments and exactly one pane.
C10_MinStructure ==
  (Built /\ L > 0 /\ H > 0) =>
    /\ Emitted("Upper") /\ BoxOf("Upper").sy >= SMALLGAP
    /\ leftW + rightW = L - winW /\ L - winW >= MARGIN
    /\ Emitted("Left") \/ Emitted("Right")
    /\ Cardinality(Structural) \in 2..4
    /\ Cardinality(Panes) = 1
    /\ Len(kids) = Cardinality(Structural) + 1

\* A wall reduced to the minimum: Upper and one side segment only, the
\* window sitting on the floor line and pushed past the wall's end.
C10_Witness ==
  /\ Built /\ L > 0 /\ H > 0
  /\ Cardinality(Structural) = 2
  /\ Emitted("Upper") /\ ~Emitted("Lower")
====
